---- MODULE Spec2Model ----
(***************************************************************************)
(* A model of dodo.py, the doit task file of GTCOARLab.                    *)
(*                                                                         *)
(*   Spec        the installer test driver: U.atest, U.atest_attempt and   *)
(*               U.rebot, run by the test tasks of the two variants over   *)
(*               the shared directory build/atest.                         *)
(*   SpecGraph   the task creators task_lock, task_construct, task_build,  *)
(*               task_test and task_ci, over the spec files on disk.       *)
(*   SpecRender  the construct renderer and the CI workflow renderer over  *)
(*               lock files, templates and rendered files.                 *)
(*                                                                         *)
(* External tools (robot, rebot, conda-lock, constructor, jinja2,          *)
(* prettier) are subprocesses or library calls: robot and rebot exit with  *)
(* any code and robot may or may not leave its output file.                *)
(* A KeyboardInterrupt is modelled where the code waits for a subprocess,  *)
(* which is where the code handles it; one that arrives anywhere else, and *)
(* any other uncaught exception, ends the task and is not modelled.        *)
(***************************************************************************)
EXTENDS Integers, Sequences, FiniteSets, TLC

(* ---- bounds of the model ---- *)
MaxRetries == 1
MaxInvocations == 2

(* ---- class C: constants (dodo.py 184-215) ---- *)
NAME == "GTCOARLab"
VARIANTS == <<"cpu", "gpu">>
SUBDIRS == <<"linux-64", "osx-64", "win-64">>
BUILD_NUMBER == "0"

Range(s) == {s[i] : i \in 1..Len(s)}
VariantSet == Range(VARIANTS)
SubdirSet == Range(SUBDIRS)

VARIABLES
    (* configuration read at import *)
    THIS_SUBDIR,      \* C.THIS_SUBDIR, from platform.system()
    CI,               \* C.CI
    ATEST_RETRIES,    \* C.ATEST_RETRIES
    ATEST_ARGS,       \* C.ATEST_ARGS
    (* files on disk *)
    SPECS,            \* the .yml files that exist under specs/
    robot_xml,        \* build/atest/<stem>.robot.xml -> "absent", or who left it: "fresh" (the
                      \* current or latest invocation of its test task) or "stale" (an earlier one)
    out_dirs,         \* the directories build/atest/<stem> that exist
    locks,            \* locks/<stem>.conda.lock -> its lines
    rendered,         \* constructs/... and .github/workflows/ci.yml -> lines
    (* the test driver, one thread per test task (variant) *)
    pc,               \* where the thread is in U.atest
    attempt,          \* the loop variable of U.atest
    return_code,      \* the local return_code of U.atest
    proc,             \* <<call>> while a robot subprocess runs, else <<>>
    rebot_inputs,     \* the files on rebot's command line while it runs
    rebot_rc,         \* what U.rebot returned
    result,           \* what U.atest returned to the engine
    (* what the current top-level invocation of each test task has done so far *)
    n_invocations,    \* top-level invocations started, over all test tasks
    n_started,        \* robot subprocesses started
    returned,         \* <<outcome>> of the attempt that has just returned, else <<>>
    zero_seen,        \* some attempt returned 0
    rebots,           \* rebot subprocesses started
    (* the task graph *)
    tasks, loaded,
    (* the renderers *)
    last_render

cfgvars == <<THIS_SUBDIR, CI, ATEST_RETRIES, ATEST_ARGS>>
diskvars == <<robot_xml, out_dirs>>
dvars == <<pc, attempt, return_code, proc, rebot_inputs, rebot_rc, result,
           n_invocations, n_started, returned, zero_seen, rebots>>
gvars == <<tasks, loaded>>
rvars == <<locks, rendered, last_render>>
vars == <<cfgvars, SPECS, diskvars, dvars, gvars, rvars>>

(***************************************************************************)
(* The test driver                                                         *)
(***************************************************************************)

(* P.ATEST_OUT / f"{variant}-{subdir}-{attempt}.robot.xml" *)
XmlPath(variant, subdir, k) == [variant |-> variant, subdir |-> subdir, attempt |-> k]
XmlPaths == {XmlPath(v, s, k) : v \in VariantSet, s \in {THIS_SUBDIR}, k \in 0..MaxRetries}

NoPath == [variant |-> "", subdir |-> "", attempt |-> -1]

(* one command-line option of robot: its name, its value, and the file it names *)
Opt(name, value, file) == [opt |-> name, value |-> value, file |-> file]

(* the values of C.ATEST_ARGS that the model draws from *)
AtestArgChoices == {<<>>, <<Opt("--loglevel", "DEBUG", NoPath)>>}

(* the exit codes of robot and rebot that the model draws from *)
ExitCodes == {0, 2}

(* except KeyboardInterrupt: proc.kill(); return 1.
   killed_reported_as_success is a handler that reports the killed subprocess
   as a success *)
killed_reported_as_success == 1 - 1
KeyboardInterruptCode == 1

(* lines 426-430: the driver's own extra arguments of attempt k;
   previous_exists is previous.exists() for the result file of attempt k-1.
   own_extra_args_trace_only_with_rerun is the variant that raises the log
   level only together with the filter *)
own_extra_args_trace_only_with_rerun(variant, subdir, k, previous_exists) ==
    IF k # 0 /\ previous_exists
        THEN <<Opt("--loglevel", "TRACE", NoPath),
               Opt("--rerunfailed", "", XmlPath(variant, subdir, k - 1))>>
        ELSE <<>>
own_extra_args(variant, subdir, k, previous_exists) ==
    IF k # 0
        THEN <<Opt("--loglevel", "TRACE", NoPath)>> \o
             (IF previous_exists
                 THEN <<Opt("--rerunfailed", "", XmlPath(variant, subdir, k - 1))>>
                 ELSE <<>>)
        ELSE <<>>

(* line 405: if return_code == 0: break; loop_breaks_never is a loop
   without the break *)
loop_breaks_never(rc) == FALSE
loop_breaks(rc) == rc = 0

(* lines 403-407: where the driver goes after attempt k returned rc *)
after_attempt(rc, k) ==
    IF loop_breaks(rc) \/ k + 1 >= ATEST_RETRIES + 1 THEN "exit" ELSE "loop"

(* line 407: U.rebot() follows the loop unconditionally;
   after_loop_rebot_on_failure_only is a driver that aggregates only after a
   failure *)
after_loop_rebot_on_failure_only(rc) == IF rc = 0 THEN "return" ELSE "rebot"
after_loop(rc) == "rebot"

(* line 408: return return_code == 0; atest_result_and_rebot is a driver
   that also wants the aggregation to succeed *)
atest_result_and_rebot(rc, merge_rc) == rc = 0 /\ merge_rc = 0
atest_result(rc, merge_rc) == rc = 0

(* line 516: sorted(P.ATEST_OUT.glob("*.robot.xml")); the file names sort by
   variant, then by attempt (single digits) *)
VariantRank(v) == CHOOSE i \in 1..Len(VARIANTS) : VARIANTS[i] = v
PathBefore(p, q) ==
    \/ VariantRank(p.variant) < VariantRank(q.variant)
    \/ p.variant = q.variant /\ p.attempt < q.attempt
RECURSIVE sorted(_)
sorted(S) ==
    IF S = {} THEN <<>>
    ELSE LET m == CHOOSE p \in S : \A q \in S \ {p} : PathBefore(p, q)
         IN <<m>> \o sorted(S \ {m})
glob_robot_xml == {p \in XmlPaths : robot_xml[p] # "absent"}
rebot_args == sorted(glob_robot_xml)

Threads == VariantSet

(* the driver touches neither the configuration nor the other trees *)
DriverFrame == UNCHANGED <<cfgvars, SPECS, gvars, rvars>>

DriverInit ==
    /\ robot_xml = [p \in XmlPaths |-> "absent"]
    /\ out_dirs = {}
    /\ pc = [t \in Threads |-> "idle"]
    /\ attempt = [t \in Threads |-> 0]
    /\ return_code = [t \in Threads |-> 1]
    /\ proc = [t \in Threads |-> <<>>]
    /\ rebot_inputs = [t \in Threads |-> <<>>]
    /\ rebot_rc = [t \in Threads |-> 0]
    /\ result = [t \in Threads |-> FALSE]
    /\ n_invocations = 0
    /\ n_started = [t \in Threads |-> 0]
    /\ returned = [t \in Threads |-> <<>>]
    /\ zero_seen = [t \in Threads |-> FALSE]
    /\ rebots = [t \in Threads |-> 0]

(* the engine runs the action (U.atest, [variant, subdir]) of a test task:
   lines 402-403, up to the first test of the loop.  The result files its
   earlier invocation left are stale from now on *)
atest(t) ==
    /\ pc[t] \in {"idle", "done"}
    /\ n_invocations < MaxInvocations
    /\ n_invocations' = n_invocations + 1
    /\ robot_xml' = [p \in XmlPaths |->
           IF p.variant = t /\ robot_xml[p] = "fresh" THEN "stale" ELSE robot_xml[p]]
    /\ return_code' = [return_code EXCEPT ![t] = 1]
    /\ attempt' = [attempt EXCEPT ![t] = 0]
    /\ pc' = [pc EXCEPT ![t] = IF 0 < ATEST_RETRIES + 1 THEN "loop" ELSE after_loop(1)]
    /\ n_started' = [n_started EXCEPT ![t] = 0]
    /\ zero_seen' = [zero_seen EXCEPT ![t] = FALSE]
    /\ rebots' = [rebots EXCEPT ![t] = 0]
    /\ rebot_rc' = [rebot_rc EXCEPT ![t] = 0]
    /\ result' = [result EXCEPT ![t] = FALSE]
    /\ UNCHANGED <<out_dirs, proc, rebot_inputs, returned>>
    /\ DriverFrame

(* U.atest_attempt up to subprocess.Popen: lines 412-469.  Lines 418-424
   replace the directory out_dir; the result file of an earlier run,
   <stem>.robot.xml, lies beside out_dir and stays *)
atest_attempt(t) ==
    /\ pc[t] = "loop"
    /\ LET k == attempt[t]
           previous == XmlPath(t, THIS_SUBDIR, k - 1)
           previous_exists == k # 0 /\ robot_xml[previous] # "absent"
           args == own_extra_args(t, THIS_SUBDIR, k, previous_exists) \o ATEST_ARGS
           call == [attempt |-> k, extra_args |-> args,
                    output |-> XmlPath(t, THIS_SUBDIR, k)]
       IN /\ out_dirs' = out_dirs \cup {XmlPath(t, THIS_SUBDIR, k)}
          /\ proc' = [proc EXCEPT ![t] = <<call>>]
    /\ n_started' = [n_started EXCEPT ![t] = @ + 1]
    /\ returned' = [returned EXCEPT ![t] = <<>>]
    /\ pc' = [pc EXCEPT ![t] = "wait"]
    /\ UNCHANGED <<robot_xml, attempt, return_code, rebot_inputs, rebot_rc, result,
                   n_invocations, zero_seen, rebots>>
    /\ DriverFrame

(* the attempt returned rc to line 404; wrote: robot left its output file *)
attempt_returns(t, rc, wrote, by_interrupt) ==
    /\ robot_xml' = IF wrote
                      THEN [robot_xml EXCEPT ![proc[t][1].output] = "fresh"]
                      ELSE robot_xml
    /\ proc' = [proc EXCEPT ![t] = <<>>]
    /\ return_code' = [return_code EXCEPT ![t] = rc]
    /\ returned' = [returned EXCEPT ![t] =
                       <<[attempt |-> attempt[t], rc |-> rc, wrote |-> wrote,
                          by_interrupt |-> by_interrupt]>>]
    /\ zero_seen' = [zero_seen EXCEPT ![t] = @ \/ rc = 0]
    /\ LET next == after_attempt(rc, attempt[t])
       IN IF next = "loop"
            THEN /\ attempt' = [attempt EXCEPT ![t] = @ + 1]
                 /\ pc' = [pc EXCEPT ![t] = "loop"]
            ELSE /\ attempt' = attempt
                 /\ pc' = [pc EXCEPT ![t] = after_loop(rc)]
    /\ UNCHANGED <<out_dirs, rebot_inputs, rebot_rc, result, n_invocations, n_started,
                   rebots>>
    /\ DriverFrame

(* lines 471-472: return proc.wait() *)
proc_wait(t) ==
    /\ pc[t] = "wait"
    /\ \E rc \in ExitCodes, wrote \in BOOLEAN : attempt_returns(t, rc, wrote, FALSE)

(* lines 473-475: KeyboardInterrupt while waiting: proc.kill(); return 1 *)
attempt_interrupted(t) ==
    /\ pc[t] = "wait"
    /\ \E wrote \in BOOLEAN : attempt_returns(t, KeyboardInterruptCode, wrote, TRUE)

(* U.rebot up to subprocess.Popen: lines 508-522 *)
rebot(t) ==
    /\ pc[t] = "rebot"
    /\ rebot_inputs' = [rebot_inputs EXCEPT ![t] = rebot_args]
    /\ rebots' = [rebots EXCEPT ![t] = @ + 1]
    /\ pc' = [pc EXCEPT ![t] = "rebot_wait"]
    /\ UNCHANGED <<robot_xml, out_dirs, attempt, return_code, proc, rebot_rc, result,
                   n_invocations, n_started, returned, zero_seen>>
    /\ DriverFrame

(* rebot returned rc to line 407, which discards it *)
rebot_returns(t, rc) ==
    /\ rebot_rc' = [rebot_rc EXCEPT ![t] = rc]
    /\ rebot_inputs' = [rebot_inputs EXCEPT ![t] = <<>>]
    /\ pc' = [pc EXCEPT ![t] = "return"]
    /\ UNCHANGED <<robot_xml, out_dirs, attempt, return_code, proc, result,
                   n_invocations, n_started, returned, zero_seen,
                   rebots>>
    /\ DriverFrame

(* lines 524-525: return proc.wait() *)
rebot_wait(t) ==
    /\ pc[t] = "rebot_wait"
    /\ \E rc \in ExitCodes : rebot_returns(t, rc)

(* lines 526-528: KeyboardInterrupt while waiting: proc.kill(); return 1 *)
rebot_interrupted(t) ==
    /\ pc[t] = "rebot_wait"
    /\ rebot_returns(t, KeyboardInterruptCode)

(* line 408; rebot_rc keeps what the aggregation of this invocation returned *)
atest_return(t) ==
    /\ pc[t] = "return"
    /\ result' = [result EXCEPT ![t] = atest_result(return_code[t], rebot_rc[t])]
    /\ pc' = [pc EXCEPT ![t] = "done"]
    /\ attempt' = [attempt EXCEPT ![t] = 0]
    /\ return_code' = [return_code EXCEPT ![t] = 1]
    /\ returned' = [returned EXCEPT ![t] = <<>>]
    /\ UNCHANGED <<robot_xml, out_dirs, proc, rebot_inputs, rebot_rc, n_invocations, n_started,
                   zero_seen, rebots>>
    /\ DriverFrame

Next ==
    \E t \in Threads :
        \/ atest(t)
        \/ atest_attempt(t)
        \/ proc_wait(t)
        \/ attempt_interrupted(t)
        \/ rebot(t)
        \/ rebot_wait(t)
        \/ rebot_interrupted(t)
        \/ atest_return(t)

(* ---- properties of the test driver ---- *)

Running(t) == proc[t] # <<>>
(* the driver's own options of a call: those in front of C.ATEST_ARGS *)
OwnArgs(call) == SubSeq(call.extra_args, 1, Len(call.extra_args) - Len(ATEST_ARGS))
RerunFiles(args) == {args[i].file : i \in {j \in 1..Len(args) : args[j].opt = "--rerunfailed"}}
HasTrace(args) ==
    \E i \in 1..Len(args) : args[i].opt = "--loglevel" /\ args[i].value = "TRACE"
Previous(t) == XmlPath(t, THIS_SUBDIR, proc[t][1].attempt - 1)
AfterTheLoop == {"rebot", "rebot_wait", "return", "done"}

(* C1: one call of U.atest starts at most N+1 robot subprocesses, with the
   attempt indices 0, 1, 2, ... in order, and starts none after an attempt
   that returned 0 *)
C1_AtMostNPlusOneAttemptsStopAtZero ==
    \A t \in Threads :
        /\ n_started[t] <= ATEST_RETRIES + 1
        /\ Running(t) => proc[t][1].attempt = n_started[t] - 1
        /\ pc[t] = "loop" => attempt[t] = n_started[t]
        /\ zero_seen[t] => pc[t] \in AfterTheLoop /\ ~Running(t)
        /\ (returned[t] # <<>> /\ returned[t][1].rc = 0) => zero_seen[t]

(* a call that stopped at a zero exit code of its first attempt with a retry
   left unused *)
C1_Witness ==
    \E t \in Threads :
        pc[t] = "done" /\ zero_seen[t] /\ n_started[t] = 1 /\ ATEST_RETRIES >= 1

(* C2 as stated: on attempt k>0 the rerun-failed filter names the result file
   of attempt k-1 if attempt k-1 of this invocation produced it, and there is
   no rerun-failed filter if attempt k-1 produced no result file *)
C2_RerunFailedIffPreviousAttemptProduced ==
    \A t \in Threads :
        (Running(t) /\ proc[t][1].attempt > 0) =>
            RerunFiles(OwnArgs(proc[t][1])) =
                IF robot_xml[Previous(t)] = "fresh" THEN {Previous(t)} ELSE {}

(* C3: rebot runs exactly once per call of U.atest, after the last attempt
   and never between attempts, whatever the attempts returned *)
C3_RebotExactlyOnceAfterLastAttempt ==
    \A t \in Threads :
        /\ rebots[t] <= 1
        /\ pc[t] \in {"loop", "wait", "rebot"} => rebots[t] = 0
        /\ pc[t] \in {"rebot_wait", "return", "done"} => rebots[t] = 1 /\ ~Running(t)
        /\ pc[t] # "rebot_wait" => rebot_inputs[t] = <<>>

(* a call that has returned after using up its retry budget on failures *)
C3_Witness ==
    \E t \in Threads :
        /\ pc[t] = "done" /\ rebots[t] = 1 /\ ~zero_seen[t]
        /\ ATEST_RETRIES >= 1 /\ n_started[t] = ATEST_RETRIES + 1

(* C5: an attempt ended by KeyboardInterrupt leaves no subprocess behind,
   returns a non-zero code and uses up one attempt, and the driver goes on: to
   attempt k+1 when k < N, and to the aggregation otherwise *)
C5_InterruptIsAFailedAttempt ==
    \A t \in Threads :
        (returned[t] # <<>> /\ returned[t][1].by_interrupt) =>
            LET k == returned[t][1].attempt
            IN /\ ~Running(t)
               /\ returned[t][1].rc # 0
               /\ ~zero_seen[t]
               /\ n_started[t] = k + 1
               /\ IF k < ATEST_RETRIES
                     THEN pc[t] = "loop" /\ attempt[t] = k + 1
                     ELSE pc[t] \in {"rebot", "rebot_wait", "return"}
               /\ pc[t] = "return" => rebots[t] = 1

(* attempt 0 was interrupted and the driver is about to start attempt 1 *)
C5_Witness ==
    \E t \in Threads :
        /\ returned[t] # <<>> /\ returned[t][1].by_interrupt
        /\ returned[t][1].attempt = 0 /\ pc[t] = "loop" /\ attempt[t] = 1

(* C6: U.atest returns True exactly when some attempt returned 0, which is
   when the last attempt did; it returns False only after N+1 failed attempts;
   it returns after the aggregation, whose exit code does not matter *)
C6_SuccessIffSomeAttemptZero ==
    \A t \in Threads :
        /\ pc[t] = "done" =>
              /\ result[t] = zero_seen[t]
              /\ ~result[t] => n_started[t] = ATEST_RETRIES + 1
              /\ rebots[t] = 1
        /\ pc[t] \in {"rebot", "rebot_wait", "return"} =>
              /\ returned[t] # <<>>
              /\ zero_seen[t] = (returned[t][1].rc = 0)
              /\ zero_seen[t] = (return_code[t] = 0)

(* a call that reported success although the aggregation failed *)
C6_Witness ==
    \E t \in Threads : pc[t] = "done" /\ result[t] /\ rebot_rc[t] # 0

(* C7 as amended: attempt 0 passes no option of its own; an attempt k>0
   always raises the log level, and passes the rerun-failed filter, naming the
   result file of attempt k-1, exactly when that file exists *)
C7_TraceOnEveryRetryRerunIffPreviousExists ==
    \A t \in Threads :
        Running(t) =>
            LET own == OwnArgs(proc[t][1])
            IN IF proc[t][1].attempt = 0
                  THEN own = <<>>
                  ELSE /\ HasTrace(own)
                       /\ RerunFiles(own) =
                             IF robot_xml[Previous(t)] # "absent" THEN {Previous(t)} ELSE {}

(* a retry that finds no result file of the attempt before it *)
C7_Witness ==
    \E t \in Threads :
        Running(t) /\ proc[t][1].attempt > 0 /\ robot_xml[Previous(t)] = "absent"

(* C7 as stated: a retry that finds no result file of attempt k-1 carries
   neither the filter nor the raised log level *)
C7_PlainRerunCarriesNeither ==
    \A t \in Threads :
        Running(t) =>
            LET own == OwnArgs(proc[t][1])
            IN IF proc[t][1].attempt = 0 \/ robot_xml[Previous(t)] = "absent"
                  THEN own = <<>>
                  ELSE HasTrace(own) /\ RerunFiles(own) = {Previous(t)}

(* C10 as stated: the aggregation of an invocation merges exactly the result
   files that the attempts of this invocation wrote *)
C10_RebotMergesOnlyOwnAttempts ==
    \A t \in Threads :
        pc[t] = "rebot_wait" =>
            Range(rebot_inputs[t]) =
                {p \in XmlPaths : p.variant = t /\ robot_xml[p] = "fresh"}

(***************************************************************************)
(* Paths and the task graph                                                *)
(***************************************************************************)

(* a path: its directory, the dash-separated parts of its name, and the
   dot-separated parts that follow the name *)
Path(dir, stem, ext) == [dir |-> dir, stem |-> stem, ext |-> ext]

(* a directory tree without files *)
NoFiles == [f \in {} |-> <<>>]

(* variant is None for the locks that belong to no variant *)
None == "None"
(* datetime.today().strftime("%Y.%m") on the day of the run *)
VERSION == "2021.03"
CONSTRUCTOR_PLATFORM ==
    [s \in SubdirSet |->
        CASE s = "linux-64" -> <<"Linux-x86_64", "sh">>
          [] s = "osx-64" -> <<"MacOSX-x86_64", "sh">>
          [] s = "win-64" -> <<"Windows-x86_64", "exe">>]
VM ==
    [s \in SubdirSet |->
        CASE s = "linux-64" -> "ubuntu-20.04"
          [] s = "osx-64" -> "macos-latest"
          [] s = "win-64" -> "windows-latest"]
(* str.upper on the variants *)
upper(v) == CASE v = "cpu" -> "CPU" [] v = "gpu" -> "GPU"
PRETTIER_SUFFIXES == {"yml", "yaml", "toml", "json", "md"}

SpecFile(stem) == Path(<<"specs">>, stem, <<"yml">>)
WORKFLOW == Path(<<".github", "workflows">>, <<"ci">>, <<"yml">>)
CI_TEMPLATE == Path(<<"templates", "workflows">>, <<"ci">>, <<"yml", "j2">>)
YARN_INTEGRITY == Path(<<"_scripts", "node_modules">>, <<".yarn-integrity">>, <<>>)
ALL_ATEST == {Path(<<"atest">>, <<"suite">>, <<"robot">>)}

(* the files under templates/construct: two templates and a file that is
   copied as it is *)
ConstructTemplates ==
    <<Path(<<"templates", "construct">>, <<"construct">>, <<"yaml", "j2">>),
      Path(<<"templates", "construct">>, <<"post_install">>, <<"sh", "j2">>),
      Path(<<"templates", "construct">>, <<"EULA">>, <<"txt">>)>>

(* the spec files that may exist under specs/ *)
PairSpecs == {<<"run", v, s>> : v \in VariantSet, s \in SubdirSet}
OtherSpecs == {<<"run">>}

(* lines 287-290: <<the spec file of the pair>>, or <<>> for None *)
variant_spec(variant, subdir) ==
    IF <<"run", variant, subdir>> \in SPECS
        THEN <<SpecFile(<<"run", variant, subdir>>)>> ELSE <<>>

(* lines 292-296 *)
installer(variant, subdir) ==
    Path(<<"dist">>,
         <<NAME, upper(variant), VERSION, BUILD_NUMBER, CONSTRUCTOR_PLATFORM[subdir][1]>>,
         <<CONSTRUCTOR_PLATFORM[subdir][2]>>)

(* line 480: env_name + (f"-{variant}-" if variant else "-") + subdir *)
LockStem(env_name, variant, subdir) ==
    IF variant # None THEN <<env_name, variant, subdir>> ELSE <<env_name, subdir>>

(* lines 477-504: the task dict of one lock *)
lock(env_name, variant, subdir, extra_env_names) ==
    LET fnames(env) == {<<env>>, <<env, subdir>>, <<env, variant, subdir>>}
        envs == {env_name} \cup Range(extra_env_names)
        specs == {SpecFile(<<"_base">>)} \cup
                 {SpecFile(f) : f \in {g \in UNION {fnames(e) : e \in envs} : g \in SPECS}}
    IN [group |-> "lock",
        name |-> <<env_name, IF variant # None THEN variant ELSE "", subdir>>,
        file_dep |-> specs,
        targets |-> {Path(<<"locks">>, LockStem(env_name, variant, subdir),
                          <<"conda", "lock">>)}]

(* line 305: str(t.relative_to(tmpl_dir)).replace(".j2", "") *)
RECURSIVE without_j2(_)
without_j2(ext) ==
    IF ext = <<>> THEN <<>>
    ELSE IF Head(ext) = "j2" THEN without_j2(Tail(ext))
    ELSE <<Head(ext)>> \o without_j2(Tail(ext))

(* lines 300-307 *)
construct_dir(variant, subdir) == <<"constructs", variant, subdir>>
construct_lock(variant, subdir) ==
    Path(<<"locks">>, <<variant, subdir>>, <<"conda", "lock">>)
construct_dest(variant, subdir, t) ==
    Path(construct_dir(variant, subdir), t.stem, without_j2(t.ext))

(* lines 333-338: the task dict of one construct *)
construct_task(variant, subdir) ==
    [group |-> "construct",
     name |-> <<variant, subdir>>,
     file_dep |-> {construct_lock(variant, subdir)} \cup Range(ConstructTemplates),
     targets |-> {construct_dest(variant, subdir, t) : t \in Range(ConstructTemplates)}]

(* lines 340-387: the two task dicts of one build; construct.rglob("*") is
   what the construct directory holds when the tasks are created *)
build(variant, subdir) ==
    LET inst == installer(variant, subdir)
        hashfile == Path(inst.dir, inst.stem, inst.ext \o <<"sha256">>)
    IN {[group |-> "build",
         name |-> <<variant, subdir>>,
         file_dep |-> {f \in DOMAIN rendered : f.dir = construct_dir(variant, subdir)},
         targets |-> {inst}],
        [group |-> "build",
         name |-> <<variant, subdir, "sha256">>,
         file_dep |-> {inst},
         targets |-> {hashfile}]}

Pairs == VariantSet \X SubdirSet

(* lines 98-109 *)
task_lock_tasks ==
    IF CI THEN {}
    ELSE UNION {
        {lock("run", v, s, <<>>) : v \in {w \in VariantSet : variant_spec(w, s) # <<>>}}
        \cup {lock("build", None, s, <<>>), lock("atest", None, s, <<>>),
              lock("lint", None, s, <<>>),
              lock("dev", None, s, <<"build", "lint", "atest">>)}
        : s \in SubdirSet}

(* lines 112-119 *)
task_construct_tasks ==
    IF CI THEN {}
    ELSE {construct_task(p[1], p[2]) : p \in {q \in Pairs : variant_spec(q[1], q[2]) # <<>>}}

(* lines 160-166 *)
task_build_tasks ==
    UNION {build(p[1], p[2]) : p \in {q \in Pairs : variant_spec(q[1], q[2]) # <<>>}}

(* lines 169-180 *)
task_test_tasks ==
    {[group |-> "test",
      name |-> <<p[1], p[2]>>,
      file_dep |-> {installer(p[1], p[2])} \cup ALL_ATEST,
      targets |-> {Path(<<"build", "atest">>, <<p[1], p[2]>>, <<"robot", "xml">>)}]
     : p \in {q \in Pairs : q[2] = THIS_SUBDIR}}

(* lines 122-157 *)
task_ci_tasks ==
    IF CI THEN {}
    ELSE {[group |-> "ci",
           name |-> <<"workflow">>,
           file_dep |-> {CI_TEMPLATE, YARN_INTEGRITY},
           targets |-> {WORKFLOW}]}

(* doit calls each task creator once when it loads dodo.py *)
LoadCreator(creator, generated) ==
    /\ creator \notin loaded
    /\ loaded' = loaded \cup {creator}
    /\ tasks' = tasks \cup generated
    /\ UNCHANGED <<cfgvars, SPECS, diskvars, dvars, rvars>>

task_lock == LoadCreator("lock", task_lock_tasks)
task_construct == LoadCreator("construct", task_construct_tasks)
task_ci == LoadCreator("ci", task_ci_tasks)
task_build == LoadCreator("build", task_build_tasks)
task_test == LoadCreator("test", task_test_tasks)

GraphInit == tasks = {} /\ loaded = {}

InitGraph ==
    /\ THIS_SUBDIR \in SubdirSet
    /\ CI \in BOOLEAN
    /\ ATEST_RETRIES = 0
    /\ ATEST_ARGS = <<>>
    /\ SPECS \in SUBSET (PairSpecs \cup OtherSpecs)
    /\ DriverInit
    /\ GraphInit
    /\ locks = NoFiles /\ rendered = NoFiles /\ last_render = <<>>

NextGraph ==
    \/ task_lock
    \/ task_construct
    \/ task_ci
    \/ task_build
    \/ task_test

SpecGraph == InitGraph /\ [][NextGraph]_vars

(* ---- properties of the task graph ---- *)

Missing(v, s) == <<"run", v, s>> \notin SPECS
TasksOf(group) == {k \in tasks : k.group = group}

(* C4 as stated: a pair without a spec file has no lock task, no build task
   and no test task *)
C4_NoTaskForMissingPair ==
    \A v \in VariantSet, s \in SubdirSet :
        Missing(v, s) =>
            /\ \A k \in TasksOf("lock") : k.name # <<"run", v, s>>
            /\ \A k \in TasksOf("build") : k.name \notin {<<v, s>>, <<v, s, "sha256">>}
            /\ \A k \in TasksOf("test") : k.name # <<v, s>>

(* C9 as stated: the lock file a construct task depends on is a target of
   the lock task of the same pair *)
C9_ConstructLockIsALockTarget ==
    {"lock", "construct"} \subseteq loaded =>
        \A c \in TasksOf("construct") :
            \E k \in TasksOf("lock") :
                /\ k.name = <<"run">> \o c.name
                /\ {f \in c.file_dep : f.dir = <<"locks">>} \subseteq k.targets

(***************************************************************************)
(* The renderers                                                           *)
(*                                                                         *)
(* A text is a sequence of lines and a line is a sequence of words; <<>>   *)
(* is a blank line.                                                        *)
(***************************************************************************)

MaxLockLines == 2

EXPLICIT == <<"@EXPLICIT">>
(* the lock files the model draws from: a header, the sentinel line and up to
   MaxLockLines lines after it; files without the sentinel; and files with a
   second sentinel *)
Header == <<"# platform: linux-64">>
PackageLine == <<"https://pkgs/a.tar.bz2">>
RECURSIVE BodiesUpTo(_)
BodiesUpTo(n) ==
    IF n = 0 THEN {<<>>}
    ELSE LET shorter == BodiesUpTo(n - 1)
         IN shorter \cup {Append(x, l) : x \in shorter, l \in {PackageLine, <<>>}}
LockTexts ==
    {<<>>, <<Header>>}
    \cup {<<Header, EXPLICIT>> \o body : body \in BodiesUpTo(MaxLockLines)}
    \cup {<<EXPLICIT>> \o body \o <<EXPLICIT, PackageLine>> : body \in BodiesUpTo(1)}

(* the sources of the templates *)
TemplateSource(t) ==
    CASE t.stem = <<"construct">> ->
            <<<<"name:", "{{name}}", "{{variant}}">>,
              <<"version:", "{{version}}", "{{build_number}}">>,
              <<>>, <<>>,
              <<"specs:">>,
              <<"{{specs}}">>>>
      [] t.stem = <<"post_install">> ->
            <<<<"echo", "{{name}}", "{{subdir}}">>>>
      [] OTHER -> <<<<"license", "{{name}}">>, <<>>>>
CiTemplateSource == <<<<"name:", "CI">>, <<>>, <<"{{build}}">>>>

(* lines 311-314: lock.read_text().split("@EXPLICIT")[1].strip().splitlines();
   <<>> stands for the IndexError of a lock without the sentinel *)
RECURSIVE split_explicit(_)
split_explicit(text) ==
    IF text = <<>> THEN <<<<>>>>
    ELSE LET rest == split_explicit(Tail(text))
         IN IF Head(text) = EXPLICIT
               THEN <<<<>>>> \o rest
               ELSE <<<<Head(text)>> \o rest[1]>> \o Tail(rest)
RECURSIVE lstrip(_)
lstrip(text) ==
    IF text # <<>> /\ Head(text) = <<>> THEN lstrip(Tail(text)) ELSE text
RECURSIVE rstrip(_)
rstrip(text) ==
    IF text # <<>> /\ text[Len(text)] = <<>>
        THEN rstrip(SubSeq(text, 1, Len(text) - 1)) ELSE text
strip(text) == rstrip(lstrip(text))
HasExplicit(text) == Len(split_explicit(text)) >= 2
lock_specs(text) == strip(split_explicit(text)[2])

(* lines 310-320 *)
construct_context(variant, subdir, text) ==
    [specs |-> lock_specs(text), name |-> NAME, subdir |-> subdir,
     variant |-> variant, build_number |-> BUILD_NUMBER, version |-> VERSION]

(* jinja2: a word {{x}} becomes the value of x; the line {{specs}} becomes
   one line for each spec *)
RenderWord(w, context) ==
    CASE w = "{{name}}" -> context.name
      [] w = "{{subdir}}" -> context.subdir
      [] w = "{{variant}}" -> context.variant
      [] w = "{{build_number}}" -> context.build_number
      [] w = "{{version}}" -> context.version
      [] OTHER -> w
RenderLine(line, context) ==
    IF line = <<"{{specs}}">>
        THEN [i \in 1..Len(context.specs) |-> <<"-">> \o context.specs[i]]
        ELSE <<[i \in 1..Len(line) |-> RenderWord(line[i], context)]>>
RECURSIVE Render(_, _)
Render(src, context) ==
    IF src = <<>> THEN <<>>
    ELSE RenderLine(Head(src), context) \o Render(Tail(src), context)

(* prettier --write: the formatter keeps one blank line where there are
   several and drops the blank lines at the end *)
RECURSIVE squeeze(_)
squeeze(text) ==
    IF Len(text) < 2 THEN text
    ELSE IF text[1] = <<>> /\ text[2] = <<>> THEN squeeze(Tail(text))
    ELSE <<text[1]>> \o squeeze(Tail(text))
prettier(text) == rstrip(squeeze(text))

(* Path.write_text: the file holds the text afterwards;
   write_text_appending is a write that opens the file for appending *)
write_text_appending(fs, path, text) ==
    [f \in DOMAIN fs \cup {path} |->
        IF f = path THEN (IF path \in DOMAIN fs THEN fs[path] ELSE <<>>) \o text
        ELSE fs[f]]
write_text(fs, path, text) ==
    [f \in DOMAIN fs \cup {path} |-> IF f = path THEN text ELSE fs[f]]

(* lines 321-331 for one template: read, render or copy, write, format *)
render_one(fs, variant, subdir, t, context) ==
    LET dest_path == construct_dest(variant, subdir, t)
        src == TemplateSource(t)
        dest == IF t.ext # <<>> /\ t.ext[Len(t.ext)] = "j2"
                   THEN Render(src, context) ELSE src
        written == write_text(fs, dest_path, dest)
    IN IF dest_path.ext # <<>> /\ dest_path.ext[Len(dest_path.ext)] \in PRETTIER_SUFFIXES
          THEN [written EXCEPT ![dest_path] = prettier(@)]
          ELSE written

RECURSIVE render_all(_, _, _, _, _)
render_all(fs, variant, subdir, templates, context) ==
    IF templates = <<>> THEN fs
    ELSE render_all(render_one(fs, variant, subdir, Head(templates), context),
                    variant, subdir, Tail(templates), context)

RenderPairs == {q \in Pairs : variant_spec(q[1], q[2]) # <<>>}

(* a lock file appears, or changes, at the path the construct task of the
   pair reads (construct_lock) *)
write_lock(variant, subdir, text) ==
    /\ <<variant, subdir>> \in RenderPairs
    /\ IF construct_lock(variant, subdir) \in DOMAIN locks
          THEN locks[construct_lock(variant, subdir)] # text ELSE TRUE
    /\ locks' = write_text(locks, construct_lock(variant, subdir), text)
    /\ last_render' = <<>>
    /\ UNCHANGED <<rendered, cfgvars, SPECS, diskvars, dvars, gvars>>

(* lines 309-331: the action of the construct task of a pair.  A missing lock
   file, or one without the sentinel, raises before anything is written *)
construct(variant, subdir) ==
    /\ ~CI
    /\ <<variant, subdir>> \in RenderPairs
    /\ LET lockfile == construct_lock(variant, subdir)
       IN IF lockfile \in DOMAIN locks /\ HasExplicit(locks[lockfile])
             THEN rendered' = render_all(rendered, variant, subdir, ConstructTemplates,
                                  construct_context(variant, subdir, locks[lockfile]))
             ELSE rendered' = rendered
    /\ last_render' = <<"construct", variant, subdir>>
    /\ UNCHANGED <<locks, cfgvars, SPECS, diskvars, dvars, gvars>>

(* lines 128-145: context["build"], one entry for each pair with a spec file,
   variants first *)
RECURSIVE ci_entries(_, _)
ci_entries(vs, ss) ==
    IF vs = <<>> THEN <<>>
    ELSE IF ss = <<>> THEN ci_entries(Tail(vs), SUBDIRS)
    ELSE (IF variant_spec(Head(vs), Head(ss)) # <<>>
             THEN <<<<"-", Head(ss), Head(vs), "run", Head(vs), Head(ss),
                      "build", Head(ss), VM[Head(ss)]>>>>
             ELSE <<>>) \o ci_entries(vs, Tail(ss))
ci_context == ci_entries(VARIANTS, SUBDIRS)

RECURSIVE RenderCi(_, _)
RenderCi(src, entries) ==
    IF src = <<>> THEN <<>>
    ELSE (IF Head(src) = <<"{{build}}">> THEN entries ELSE <<Head(src)>>)
         \o RenderCi(Tail(src), entries)

(* lines 147-154: the actions of the workflow task: build, then prettier *)
ci_build ==
    /\ ~CI
    /\ rendered' = [write_text(rendered, WORKFLOW, RenderCi(CiTemplateSource, ci_context))
                       EXCEPT ![WORKFLOW] = prettier(@)]
    /\ last_render' = <<"ci">>
    /\ UNCHANGED <<locks, cfgvars, SPECS, diskvars, dvars, gvars>>

InitRender ==
    /\ THIS_SUBDIR = SUBDIRS[1]
    /\ CI = FALSE
    /\ ATEST_RETRIES = 0
    /\ ATEST_ARGS = <<>>
    /\ SPECS \in {{<<"run", "cpu", "linux-64">>},
                  {<<"run", "cpu", "linux-64">>, <<"run", "gpu", "linux-64">>}}
    /\ DriverInit
    /\ GraphInit
    /\ locks = NoFiles /\ rendered = NoFiles /\ last_render = <<>>

NextRender ==
    \/ \E q \in Pairs, text \in LockTexts : write_lock(q[1], q[2], text)
    \/ \E q \in Pairs : construct(q[1], q[2])
    \/ ci_build

SpecRender == InitRender /\ [][NextRender]_vars

(* ---- properties of the renderers ---- *)

(* C8: running the same renderer again, with no change of the lock files in
   between, leaves every rendered file, and the set of rendered files, as the
   first run left them *)
C8_RenderTwiceWritesTheSame ==
    [][(last_render # <<>> /\ last_render' = last_render) => rendered' = rendered]_vars

(* the construct of a pair has rendered a lock with a package list, and can
   run again *)
C8_Witness ==
    /\ last_render = <<"construct", "cpu", "linux-64">>
    /\ construct_dest("cpu", "linux-64", ConstructTemplates[1]) \in DOMAIN rendered
    /\ Len(rendered[construct_dest("cpu", "linux-64", ConstructTemplates[1])]) > 4

(***************************************************************************)
(* The specification of the test driver                                    *)
(***************************************************************************)

Init ==
    /\ THIS_SUBDIR = SUBDIRS[1]
    /\ CI = FALSE
    /\ ATEST_RETRIES \in 0..MaxRetries
    /\ ATEST_ARGS \in AtestArgChoices
    /\ SPECS = PairSpecs
    /\ DriverInit
    /\ GraphInit
    /\ locks = NoFiles /\ rendered = NoFiles /\ last_render = <<>>

Spec == Init /\ [][Next]_vars

====
